---- MODULE Spec2Model ----
(***************************************************************************)
(* A model of tomnomnom/rawhttp: the response reader (response.go), the    *)
(* request value with its wire formatter, FromURL, and Do (the latest      *)
(* revision of request.go).                                                *)
(*                                                                         *)
(* Go strings and byte slices are sequences of one-character strings, so   *)
(* that trimming, splitting, case folding, decimal parsing and byte        *)
(* counting are computed character by character as the code computes them. *)
(***************************************************************************)
EXTENDS Integers, Sequences, FiniteSets, TLC

VARIABLES
    wire,      \* the reply as the server composed it (status, header lines, blank line, body, cut)
    endErr,    \* what a read returns once the reply's bytes are used up: "EOF" or "reset"
    parsed,    \* what newResponse returned on that reply, once it ran
    inspected, \* what the caller read from the returned Response through its accessors
    req,       \* the Request the caller is building
    calls,     \* the header helpers the caller has called on req, in call order
    rendered,  \* the text String() returned for req, once the caller rendered it
    url,       \* the URL the caller passes to FromURL, as it was composed from its parts
    made,      \* what FromURL returned for it, once it ran
    dreq,      \* the Requester passed to Do
    pc,        \* where Do is: "start", "write", "crlf", "read" or "done"
    connState, \* the connection of this call of Do: "none", "open" or "closed"
    events,    \* what Do did to the network, in order: dials, writes, reads
    ret        \* what Do returned: a Response (or nil) and an error (or "nil")

respVars == <<wire, endErr, parsed, inspected>>
reqVars == <<req, calls, rendered>>
urlVars == <<url, made>>
doVars == <<dreq, pc, connState, events, ret>>

vars == <<respVars, reqVars, urlVars, doVars>>

\* the variables of the response reader while another part of the program runs
RespIdle == wire = <<>> /\ endErr = "EOF" /\ parsed = <<>> /\ inspected = <<>>

\* the variables of the request builder while another part of the program runs
ReqIdle == req = <<>> /\ calls = <<>> /\ rendered = <<>>

\* the variables of FromURL while another part of the program runs
URLIdle == url = <<>> /\ made = <<>>

\* the variables of Do while another part of the program runs
DoIdle == dreq = <<>> /\ pc = "idle" /\ connState = "none" /\ events = <<>> /\ ret = <<>>

(***************************************************************************)
(* Bounds of the model.                                                    *)
(***************************************************************************)
\* most header lines in a generated reply
MaxWireHeaders == 2
\* most body bytes in a generated reply
MaxWireBody == 2
\* most header lines the caller appends to a Request
MaxReqHeaders == 2
\* most tokens in the path, in the query and in the fragment of a generated URL
MaxURLPart == 2

(***************************************************************************)
(* Strings.                                                                *)
(***************************************************************************)
UpperChars == <<"A","B","C","D","E","F","G","H","I","J","K","L","M","N","O","P","Q","R","S","T","U","V","W","X","Y","Z">>
LowerChars == <<"a","b","c","d","e","f","g","h","i","j","k","l","m","n","o","p","q","r","s","t","u","v","w","x","y","z">>
DigitChars == <<"0","1","2","3","4","5","6","7","8","9">>

\* strings.Index for a one-character needle, counted from 1: 0 when absent
IndexOf(s, c) ==
    IF \E i \in 1..Len(s) : s[i] = c
    THEN CHOOSE i \in 1..Len(s) : s[i] = c /\ \A j \in 1..(i-1) : s[j] # c
    ELSE 0

\* the part of s after its first k elements
Drop(s, k) == SubSeq(s, k + 1, Len(s))

\* the first k elements of s
Take(s, k) == SubSeq(s, 1, k)

\* unicode.ToLower on one character
LowerChar(c) ==
    LET i == IndexOf(UpperChars, c) IN IF i # 0 THEN LowerChars[i] ELSE c

\* strings.ToLower
ToLower(s) == [i \in 1..Len(s) |-> LowerChar(s[i])]

\* unicode.IsSpace, on the white space the model's alphabet holds
IsSpace(c) == c \in {" ", "\t", "\n", "\r"}

\* strings.TrimSpace: leading and trailing white space removed
TrimSpace(s) ==
    IF \A i \in 1..Len(s) : IsSpace(s[i])
    THEN <<>>
    ELSE LET first == CHOOSE i \in 1..Len(s) : ~IsSpace(s[i]) /\ \A j \in 1..(i-1) : IsSpace(s[j])
             last  == CHOOSE i \in 1..Len(s) : ~IsSpace(s[i]) /\ \A j \in (i+1)..Len(s) : IsSpace(s[j])
         IN  SubSeq(s, first, last)

\* strings.SplitN(s, sep, 2) for a one-character sep: one part when sep is
\* absent, else the text before the first sep and the text after it
SplitN2(s, sep) ==
    LET i == IndexOf(s, sep)
    IN  IF i = 0 THEN <<s>> ELSE <<Take(s, i - 1), Drop(s, i)>>

\* the value of a run of decimal digits, most significant first
RECURSIVE DigitsValue(_)
DigitsValue(s) ==
    IF s = <<>> THEN 0
    ELSE 10 * DigitsValue(Take(s, Len(s) - 1)) + (IndexOf(DigitChars, s[Len(s)]) - 1)

\* strconv.Atoi: an optional sign, then one or more decimal digits
Atoi(s) ==
    LET signed == s # <<>> /\ s[1] \in {"+", "-"}
        digits == IF signed THEN Drop(s, 1) ELSE s
        valid  == digits # <<>> /\ \A i \in 1..Len(digits) : IndexOf(DigitChars, digits[i]) # 0
    IN  IF ~valid
        THEN [ok |-> FALSE, val |-> 0]
        ELSE [ok |-> TRUE,
              val |-> IF signed /\ s[1] = "-" THEN 0 - DigitsValue(digits) ELSE DigitsValue(digits)]

(***************************************************************************)
(* Response (response.go).                                                 *)
(***************************************************************************)
S_ContentLength == <<"C","o","n","t","e","n","t","-","L","e","n","g","t","h">>

\* a nil *Response
NilResponse == [nil |-> TRUE]

\* &Response{}
EmptyResponse == [nil |-> FALSE, rawStatus |-> <<>>, headers |-> <<>>, body |-> <<>>]

\* a Header that compares the names as they are, letter case included
RECURSIVE HeaderIn_CaseSensitive(_, _)
HeaderIn_CaseSensitive(headers, search) ==
    IF headers = <<>> THEN <<>>
    ELSE LET p == SplitN2(Head(headers), ":")
         IN  IF Len(p) # 2 THEN HeaderIn_CaseSensitive(Tail(headers), search)
             ELSE IF p[1] = search THEN TrimSpace(p[2])
             ELSE HeaderIn_CaseSensitive(Tail(headers), search)

\* Response.Header: the trimmed value of the first "name:value" line whose
\* name equals search without regard to case, "" when there is none
RECURSIVE HeaderIn(_, _)
HeaderIn(headers, search) ==
    IF headers = <<>> THEN <<>>
    ELSE LET p == SplitN2(Head(headers), ":")
         IN  IF Len(p) # 2 THEN HeaderIn(Tail(headers), search)
             ELSE IF ToLower(p[1]) = ToLower(search) THEN TrimSpace(p[2])
             ELSE HeaderIn(Tail(headers), search)

Header(r, search) == HeaderIn(r.headers, search)

\* Response.StatusLine
StatusLine(r) == r.rawStatus

\* strings.SplitN(s, " ", 3)
SplitN3(s) ==
    LET a == SplitN2(s, " ")
    IN  IF Len(a) = 1 THEN a ELSE <<a[1]>> \o SplitN2(a[2], " ")

\* Response.StatusCode
StatusCode(r) ==
    LET parts == SplitN3(r.rawStatus)
    IN  IF Len(parts) # 3 THEN <<>> ELSE parts[2]

\* Response.Headers
Headers(r) == r.headers

\* Response.Body
Body(r) == r.body

\* Response.addHeader
addHeader(r, header) == [r EXCEPT !.headers = Append(@, header)]

\* bufio.Reader.ReadString('\n') on the unread bytes buf: the line through
\* its newline, or everything left and an error when no newline is left
ReadString(buf) ==
    LET i == IndexOf(buf, "\n")
    IN  IF i = 0
        THEN [line |-> buf, rest |-> <<>>, err |-> TRUE]
        ELSE [line |-> Take(buf, i), rest |-> Drop(buf, i), err |-> FALSE]

\* a header loop that keeps the line a failed read left unfinished
RECURSIVE headerLoop_KeepPartial(_, _)
headerLoop_KeepPartial(resp, buf) ==
    LET rd   == ReadString(buf)
        line == TrimSpace(rd.line)
    IN  IF line = <<>> THEN [resp |-> resp, rest |-> rd.rest]
        ELSE IF rd.err THEN [resp |-> addHeader(resp, line), rest |-> rd.rest]
        ELSE headerLoop_KeepPartial(addHeader(resp, line), rd.rest)

\* the header loop of newResponse: lines are trimmed and appended until a
\* read fails or a line trims to nothing
RECURSIVE headerLoop(_, _)
headerLoop(resp, buf) ==
    LET rd   == ReadString(buf)
        line == TrimSpace(rd.line)
    IN  IF rd.err \/ line = <<>>
        THEN [resp |-> resp, rest |-> rd.rest]
        ELSE headerLoop(addHeader(resp, line), rd.rest)

\* a ReadAtLeast that, like a single Read, returns what is there without an error
ReadAtLeast_Short(buf, length, end) ==
    [b |-> Take(buf, IF Len(buf) >= length THEN length ELSE Len(buf)), err |-> "nil"]

\* io.ReadAtLeast(r, b, length) on the unread bytes buf, ended by end
ReadAtLeast(buf, length, end) ==
    IF Len(buf) >= length THEN [b |-> Take(buf, length), err |-> "nil"]
    ELSE IF Len(buf) = 0 THEN [b |-> <<>>, err |-> end]
    ELSE [b |-> buf, err |-> IF end = "EOF" THEN "ErrUnexpectedEOF" ELSE end]

\* a ReadAll that stops after the first line
ReadAll_Line(buf, end) ==
    [b |-> IF \E i \in 1..Len(buf) : buf[i] = "\n"
           THEN Take(buf, CHOOSE i \in 1..Len(buf) : buf[i] = "\n" /\ \A j \in 1..(i-1) : buf[j] # "\n")
           ELSE buf,
     err |-> IF end = "EOF" THEN "nil" ELSE end]

\* ioutil.ReadAll on the unread bytes buf, ended by end
ReadAll(buf, end) ==
    [b |-> buf, err |-> IF end = "EOF" THEN "nil" ELSE end]

\* the body framing of newResponse, after the header loop
readBody(resp, buf, end) ==
    LET cl == Header(resp, S_ContentLength)
    IN  IF cl # <<>>
        THEN LET length == Atoi(cl)
             IN  IF ~length.ok THEN [resp |-> NilResponse, err |-> "NumError"]
                 ELSE IF length.val > 0
                 THEN LET rd == ReadAtLeast(buf, length.val, end)
                      IN  IF rd.err # "nil" THEN [resp |-> NilResponse, err |-> rd.err]
                          ELSE [resp |-> [resp EXCEPT !.body = rd.b], err |-> "nil"]
                 ELSE [resp |-> resp, err |-> "nil"]
        ELSE LET rd == ReadAll(buf, end)
             IN  IF rd.err # "nil" THEN [resp |-> NilResponse, err |-> rd.err]
                 ELSE [resp |-> [resp EXCEPT !.body = rd.b], err |-> "nil"]

\* newResponse on a connection that delivers the bytes conn and then end
newResponse(conn, end) ==
    LET st == ReadString(conn)
    IN  IF st.err THEN [resp |-> NilResponse, err |-> end]
        ELSE LET hl == headerLoop([EmptyResponse EXCEPT !.rawStatus = TrimSpace(st.line)], st.rest)
             IN  readBody(hl.resp, hl.rest, end)

(***************************************************************************)
(* The replies a server may put on the connection.  A reply is composed    *)
(* from its parts, so that what was sent is known apart from what the      *)
(* reader makes of it: a status line (version, code, optional reason), the *)
(* header lines (name, colon, value; or a line with no colon), the line    *)
(* that ends the header section, and the body bytes.  cut tells where the  *)
(* server stopped sending: "none" (the whole reply), "inStatus" (before    *)
(* the status line's newline), "inHeaderLine" (before the last header      *)
(* line's newline), "afterHeaders" (before the line that ends the header   *)
(* section).                                                               *)
(***************************************************************************)
S_contentlength == <<"c","o","n","t","e","n","t","-","l","e","n","g","t","h">>
S_HTTP11 == <<"H","T","T","P","/","1",".","1">>
CRLF == <<"\r","\n">>

StatusParts ==
    { [version |-> S_HTTP11, code |-> <<"2","0","0">>, hasReason |-> TRUE,  reason |-> <<"O","K">>],
      [version |-> S_HTTP11, code |-> <<"2","0","0">>, hasReason |-> FALSE, reason |-> <<>>],
      [version |-> S_HTTP11, code |-> <<"4","0","4">>, hasReason |-> TRUE,  reason |-> <<"N","o","t"," ","F","o","u","n","d">>] }

\* the bytes of a status line, without its line end
StatusBytes(st) ==
    st.version \o <<" ">> \o st.code \o (IF st.hasReason THEN <<" ">> \o st.reason ELSE <<>>)

\* val is the value without its surrounding white space; isInt and int say
\* what decimal integer the sender meant by it, if any
HeaderParts ==
    { [name |-> S_ContentLength, colon |-> TRUE,  value |-> <<" ","2">>,     val |-> <<"2">>, isInt |-> TRUE,  int |-> 2],
      [name |-> S_contentlength, colon |-> TRUE,  value |-> <<"1">>,         val |-> <<"1">>, isInt |-> TRUE,  int |-> 1],
      [name |-> S_ContentLength, colon |-> TRUE,  value |-> <<" ","0">>,     val |-> <<"0">>, isInt |-> TRUE,  int |-> 0],
      [name |-> S_ContentLength, colon |-> TRUE,  value |-> <<" ","x">>,     val |-> <<"x">>, isInt |-> FALSE, int |-> 0],
      [name |-> S_ContentLength, colon |-> TRUE,  value |-> <<>>,            val |-> <<>>,    isInt |-> FALSE, int |-> 0],
      [name |-> <<"X">>,         colon |-> TRUE,  value |-> <<" ","y"," ">>, val |-> <<"y">>, isInt |-> FALSE, int |-> 0],
      [name |-> <<"X">>,         colon |-> FALSE, value |-> <<>>,            val |-> <<>>,    isInt |-> FALSE, int |-> 0] }

\* the bytes of a header line, without its line end
HeaderBytes(h) == h.name \o (IF h.colon THEN <<":">> \o h.value ELSE <<>>)

\* the lines that end a header section: they trim to nothing
BlankLines == { CRLF, <<" ","\n">> }

BodyChars == {"a", "\n"}

\* the sequences over S of length at most n
SeqsUpTo(S, n) == UNION { [1..k -> S] : k \in 0..n }

RECURSIVE JoinLines(_)
JoinLines(hs) ==
    IF hs = <<>> THEN <<>> ELSE HeaderBytes(Head(hs)) \o CRLF \o JoinLines(Tail(hs))

\* the bytes the connection delivers for the reply w
WireBytes(w) ==
    CASE w.cut = "inStatus"     -> StatusBytes(w.status)
      [] w.cut = "inHeaderLine" -> LET all == StatusBytes(w.status) \o CRLF \o JoinLines(w.hdrs)
                                   IN  Take(all, Len(all) - 2)
      [] w.cut = "afterHeaders" -> StatusBytes(w.status) \o CRLF \o JoinLines(w.hdrs)
      [] OTHER                  -> StatusBytes(w.status) \o CRLF \o JoinLines(w.hdrs) \o w.blank \o w.body

Wires ==
    { [status |-> st, hdrs |-> hs, blank |-> bl, body |-> b, cut |-> "none"] :
        st \in StatusParts, hs \in SeqsUpTo(HeaderParts, MaxWireHeaders),
        bl \in BlankLines, b \in SeqsUpTo(BodyChars, MaxWireBody) }
    \cup
    { [status |-> st, hdrs |-> hs, blank |-> <<>>, body |-> <<>>, cut |-> c] :
        st \in StatusParts, hs \in SeqsUpTo(HeaderParts, MaxWireHeaders) \ {<<>>},
        c \in {"inHeaderLine", "afterHeaders"} }
    \cup
    { [status |-> st, hdrs |-> <<>>, blank |-> <<>>, body |-> <<>>, cut |-> c] :
        st \in StatusParts, c \in {"inStatus", "afterHeaders"} }

(***************************************************************************)
(* SpecResp: newResponse applied to every reply.                           *)
(***************************************************************************)
NotParsed == [done |-> FALSE, resp |-> NilResponse, err |-> "nil"]

\* the names the caller looks up
S_CONTENTLENGTH == <<"C","O","N","T","E","N","T","-","L","E","N","G","T","H">>
LookupNames == { S_ContentLength, S_contentlength, S_CONTENTLENGTH, <<"X">>, <<"x">>, <<"Y">> }

NotInspected ==
    [done |-> FALSE, header |-> [n \in LookupNames |-> <<>>],
     statusLine |-> <<>>, statusCode |-> <<>>, headers |-> <<>>, body |-> <<>>]

InitResp ==
    /\ wire \in Wires
    /\ endErr = "EOF"
    /\ parsed = NotParsed
    /\ inspected = NotInspected
    /\ ReqIdle /\ URLIdle /\ DoIdle

\* newResponse runs on the reply
Parse ==
    /\ ~parsed.done
    /\ LET r == newResponse(WireBytes(wire), endErr)
       IN  parsed' = [done |-> TRUE, resp |-> r.resp, err |-> r.err]
    /\ UNCHANGED <<wire, endErr, inspected, reqVars, urlVars, doVars>>

\* the caller reads the returned Response: Header for each name, StatusLine,
\* StatusCode, Headers and Body
Inspect ==
    /\ parsed.done
    /\ parsed.err = "nil"
    /\ ~inspected.done
    /\ inspected' = [done       |-> TRUE,
                     header     |-> [n \in LookupNames |-> Header(parsed.resp, n)],
                     statusLine |-> StatusLine(parsed.resp),
                     statusCode |-> StatusCode(parsed.resp),
                     headers    |-> Headers(parsed.resp),
                     body       |-> Body(parsed.resp)]
    /\ UNCHANGED <<wire, endErr, parsed, reqVars, urlVars, doVars>>

NextResp == Parse \/ Inspect

SpecResp == InitResp /\ [][NextResp]_vars

(***************************************************************************)
(* What was sent, read off the composed reply (not off the parse).         *)
(***************************************************************************)
\* the spellings of the name Content-Length that replies and lookups use
CLNames == { S_ContentLength, S_contentlength, S_CONTENTLENGTH }

\* the sets of names that differ in letter case only
CaseClasses == { CLNames, {<<"X">>, <<"x">>}, {<<"Y">>, <<"y">>} }

SameNameUpToCase(a, b) == \E K \in CaseClasses : a \in K /\ b \in K

\* the header lines that arrived whole, newline included
RecvHdrs(w) ==
    IF w.cut = "inHeaderLine" THEN Take(w.hdrs, Len(w.hdrs) - 1) ELSE w.hdrs

\* the positions in hs of the "name:value" lines whose name is n up to case
Matching(hs, n) == { i \in 1..Len(hs) : hs[i].colon /\ SameNameUpToCase(hs[i].name, n) }

\* the first of them
FirstMatching(hs, n) == CHOOSE i \in Matching(hs, n) : \A j \in Matching(hs, n) : i <= j

HasCL(w) == Matching(RecvHdrs(w), S_ContentLength) # {}

\* the reply's Content-Length header: the first such line, the one a lookup returns
TheCL(w) == RecvHdrs(w)[FirstMatching(RecvHdrs(w), S_ContentLength)]

\* C1: when the reply's Content-Length header (the first one, if there are
\* several) is a positive integer N, newResponse returns a Response whose
\* body is the first N bytes after the blank line if at least N follow,
\* whatever comes after them, and an error and no Response if fewer follow.
C1_ContentLengthFraming ==
    (parsed.done /\ wire.cut = "none" /\ HasCL(wire) /\ TheCL(wire).isInt /\ TheCL(wire).int > 0)
    => IF Len(wire.body) >= TheCL(wire).int
       THEN /\ parsed.err = "nil"
            /\ parsed.resp # NilResponse
            /\ parsed.resp.body = SubSeq(wire.body, 1, TheCL(wire).int)
       ELSE /\ parsed.err # "nil"
            /\ parsed.resp = NilResponse

\* a reply with more body bytes than its Content-Length was parsed
C1_Witness ==
    /\ parsed.done /\ wire.cut = "none" /\ HasCL(wire)
    /\ TheCL(wire).isInt /\ TheCL(wire).int > 0
    /\ Len(wire.body) > TheCL(wire).int
    /\ parsed.err = "nil"
    /\ Len(parsed.resp.body) = TheCL(wire).int

\* C2: when the status line is complete and no header line is a
\* Content-Length header, newResponse returns a Response whose body is every
\* byte after the line that ends the header section, up to the end of the
\* stream (nothing, when the stream ends inside the header section).
C2_ReadToEOF ==
    (parsed.done /\ wire.cut # "inStatus" /\ endErr = "EOF"
        /\ Matching(wire.hdrs, S_ContentLength) = {})
    => /\ parsed.err = "nil"
       /\ parsed.resp # NilResponse
       /\ parsed.resp.body = wire.body

\* a reply without Content-Length whose body holds a newline was parsed
C2_Witness ==
    /\ parsed.done /\ wire.cut = "none" /\ Matching(wire.hdrs, S_ContentLength) = {}
    /\ Len(wire.hdrs) > 0
    /\ Len(wire.body) >= 2 /\ wire.body[1] = "\n"
    /\ parsed.err = "nil"
    /\ parsed.resp.body = wire.body

\* C3 (as claimed): when the reply's Content-Length header has a value that
\* is not an integer, newResponse returns an error and no Response.
C3_NonIntegerFails ==
    (parsed.done /\ wire.cut = "none" /\ HasCL(wire) /\ ~TheCL(wire).isInt)
    => /\ parsed.err # "nil"
       /\ parsed.resp = NilResponse

\* the value Header must return for n: that of the first matching line
ExpectedValue(hs, n) ==
    IF Matching(hs, n) = {} THEN <<>> ELSE hs[FirstMatching(hs, n)].val

C10_StatusCode ==
    inspected.done
    => /\ inspected.statusCode = wire.status.code
       /\ inspected.statusLine = StatusBytes(wire.status)

\* the header lines newResponse must keep: the trimmed text of the lines
\* that arrived whole before the header section ended, in wire order
ExpectedHeaders(w) == [i \in 1..Len(RecvHdrs(w)) |-> TrimSpace(HeaderBytes(RecvHdrs(w)[i]))]

\* the stream ended inside the header section
EndsInHeaders(w) == w.cut \in {"inHeaderLine", "afterHeaders"}

\* the body framing has something to fail on: a Content-Length header that
\* is no integer, or a positive one with fewer bytes after the header section
FramingMayFail(w) ==
    /\ HasCL(w)
    /\ \/ ~TheCL(w).isInt
       \/ TheCL(w).int > 0 /\ Len(w.body) < TheCL(w).int

\* C11: when the status line arrived with its newline, the header loop never
\* fails the parse by itself: an error comes from the body framing only, and
\* a returned Response holds exactly the trimmed, non-empty lines that
\* arrived whole before the first empty line or the end of the stream, in
\* wire order.  A stream that ends inside the header section is framed like
\* one whose headers ended there with nothing after them (a positive
\* Content-Length fails, anything else gives an empty body).  A stream that
\* ends before the status line's newline gives an error and no Response.
C11_HeaderLoopTolerant ==
    parsed.done
    => /\ wire.cut = "inStatus" => (parsed.err # "nil" /\ parsed.resp = NilResponse)
       /\ wire.cut # "inStatus" =>
            /\ parsed.err # "nil" => (parsed.resp = NilResponse /\ FramingMayFail(wire))
            /\ parsed.err = "nil" =>
                 /\ parsed.resp # NilResponse
                 /\ Headers(parsed.resp) = ExpectedHeaders(wire)
       /\ EndsInHeaders(wire) =>
            /\ (HasCL(wire) /\ TheCL(wire).isInt /\ TheCL(wire).int > 0)
                 => (parsed.err # "nil" /\ parsed.resp = NilResponse)
            /\ (~HasCL(wire) \/ (TheCL(wire).isInt /\ TheCL(wire).int <= 0))
                 => (parsed.err = "nil" /\ parsed.resp # NilResponse /\ Body(parsed.resp) = <<>>)

\* a reply that stopped before the newline of its second header line was
\* parsed into a Response with the first header line only and no body
C11_Witness ==
    /\ parsed.done
    /\ wire.cut = "inHeaderLine" /\ Len(wire.hdrs) = 2
    /\ parsed.err = "nil"
    /\ Len(Headers(parsed.resp)) = 1
    /\ Headers(parsed.resp) = ExpectedHeaders(wire)
    /\ Body(parsed.resp) = <<>>

(***************************************************************************)
(* Request and RawRequest (request.go, latest revision).                   *)
(***************************************************************************)
S_Host == <<"H","o","s","t",":"," ">>
S_ContentLengthColon == <<"C","o","n","t","e","n","t","-","L","e","n","g","t","h",":"," ">>

\* the default timeout of GetTimeout, in seconds
DefaultTimeout == 30

\* fmt.Sprintf("%d", n) for n >= 0
RECURSIVE Itoa(_)
Itoa(n) ==
    IF n < 10 THEN <<DigitChars[n + 1]>> ELSE Itoa(n \div 10) \o <<DigitChars[(n % 10) + 1]>>

\* Request.IsTLS
IsTLS(r) == r.TLS

\* Request.Host
Host(r) == r.Hostname \o <<":">> \o r.Port

\* Request.AddHeader
AddHeader(r, h) == [r EXCEPT !.Headers = Append(@, h)]

\* Request.AutoSetHost
AutoSetHost(r) == AddHeader(r, S_Host \o r.Hostname)

\* Request.AutoSetContentLength
AutoSetContentLength(r) == AddHeader(r, S_ContentLengthColon \o Itoa(Len(r.Body)))

\* Request.fullPath
fullPath(r) ==
    LET q == IF r.Query # <<>> THEN <<"?">> \o r.Query ELSE <<>>
        f == IF r.Fragment # <<>> THEN <<"#">> \o r.Fragment ELSE <<>>
    IN  r.Path \o q \o f

\* Request.RequestLine
RequestLine(r) == r.Method \o <<" ">> \o fullPath(r) \o <<" ">> \o r.Proto

\* the loop of Request.String that writes each header and the line end
RECURSIVE writeHeaders(_, _)
writeHeaders(hs, eol) ==
    IF hs = <<>> THEN <<>> ELSE Head(hs) \o eol \o writeHeaders(Tail(hs), eol)

\* a String with the line end fixed to "\r\n", whatever r.EOL says
String_FixedEOL(r) ==
    RequestLine(r) \o <<"\r","\n">> \o writeHeaders(r.Headers, <<"\r","\n">>) \o <<"\r","\n">> \o r.Body

\* Request.String
String(r) ==
    RequestLine(r) \o r.EOL \o writeHeaders(r.Headers, r.EOL) \o r.EOL \o r.Body

\* Request.GetTimeout and RawRequest.GetTimeout
GetTimeout(r) == IF r.Timeout = 0 THEN DefaultTimeout ELSE r.Timeout

\* RawRequest.IsTLS
RawIsTLS(r) == r.TLS

\* RawRequest.Host
RawHost(r) == r.Hostname \o <<":">> \o r.Port

\* RawRequest.String
RawString(r) == r.Request

(***************************************************************************)
(* SpecReq: a caller builds a Request, appends headers through the three   *)
(* helpers, changes the body, and renders it.                              *)
(***************************************************************************)
S_GET == <<"G","E","T">>
S_http == <<"h","t","t","p">>
S_80 == <<"8","0">>
LF == <<"\n">>

ReqBodies == { <<>>, <<"x">>, <<"h","e","l","l","o"," ","w","o","r","l","d">> }

\* the header lines the caller passes to AddHeader
AddedHeaders == { <<"A",":"," ","b">>, <<"H","o","s","t",":"," ","e">> }

\* the Requests a caller starts from: the fields set, no header yet
NewRequests ==
    { [TLS |-> FALSE, Method |-> S_GET, Scheme |-> S_http, Hostname |-> <<"h">>, Port |-> S_80,
       Path |-> pa, Query |-> qu, Fragment |-> fr, Proto |-> S_HTTP11, Headers |-> <<>>,
       Body |-> bo, EOL |-> eol, Timeout |-> 0] :
        pa \in { <<"/">>, <<"/","p">> },
        qu \in { <<>>, <<"q">>, <<"a","?","b">> },
        fr \in { <<>>, <<"f">> },
        bo \in ReqBodies,
        eol \in { CRLF, LF } }

InitReq ==
    /\ req \in NewRequests
    /\ calls = <<>>
    /\ rendered = [done |-> FALSE, text |-> <<>>]
    /\ RespIdle /\ URLIdle /\ DoIdle

\* req.AddHeader(h)
CallAddHeader(h) ==
    /\ ~rendered.done
    /\ Len(req.Headers) < MaxReqHeaders
    /\ req' = AddHeader(req, h)
    /\ calls' = Append(calls, [op |-> "AddHeader", line |-> h, host |-> <<>>, len |-> 0])
    /\ UNCHANGED <<rendered, respVars, urlVars, doVars>>

\* req.AutoSetHost()
CallAutoSetHost ==
    /\ ~rendered.done
    /\ Len(req.Headers) < MaxReqHeaders
    /\ req' = AutoSetHost(req)
    /\ calls' = Append(calls, [op |-> "AutoSetHost", line |-> <<>>, host |-> req.Hostname, len |-> 0])
    /\ UNCHANGED <<rendered, respVars, urlVars, doVars>>

\* req.AutoSetContentLength()
CallAutoSetContentLength ==
    /\ ~rendered.done
    /\ Len(req.Headers) < MaxReqHeaders
    /\ req' = AutoSetContentLength(req)
    /\ calls' = Append(calls, [op |-> "AutoSetContentLength", line |-> <<>>, host |-> <<>>, len |-> Len(req.Body)])
    /\ UNCHANGED <<rendered, respVars, urlVars, doVars>>

\* req.Body = b
SetBody(b) ==
    /\ ~rendered.done
    /\ b # req.Body
    /\ req' = [req EXCEPT !.Body = b]
    /\ UNCHANGED <<calls, rendered, respVars, urlVars, doVars>>

\* req.String()
Render ==
    /\ ~rendered.done
    /\ rendered' = [done |-> TRUE, text |-> String(req)]
    /\ UNCHANGED <<req, calls, respVars, urlVars, doVars>>

NextReq ==
    \/ \E h \in AddedHeaders : CallAddHeader(h)
    \/ CallAutoSetHost
    \/ CallAutoSetContentLength
    \/ \E b \in ReqBodies : SetBody(b)
    \/ Render

SpecReq == InitReq /\ [][NextReq]_vars

\* the decimal text of the body lengths the caller's bodies have
DecimalText(n) ==
    CASE n = 0  -> <<"0">>
      [] n = 1  -> <<"1">>
      [] n = 11 -> <<"1","1">>

\* the header line a helper call was to append
ExpectedLine(c) ==
    CASE c.op = "AddHeader"   -> c.line
      [] c.op = "AutoSetHost" -> <<"H","o","s","t",":"," ">> \o c.host
      [] OTHER                -> <<"C","o","n","t","e","n","t","-","L","e","n","g","t","h",":"," ">> \o DecimalText(c.len)

\* the lines of the helper calls cs, each followed by eol
RECURSIVE ExpectedHeaderBlock(_, _)
ExpectedHeaderBlock(cs, eol) ==
    IF cs = <<>> THEN <<>>
    ELSE ExpectedLine(Head(cs)) \o eol \o ExpectedHeaderBlock(Tail(cs), eol)

\* C8: String() is Method, a space, fullPath, a space, Proto and EOL, then
\* each header followed by EOL, then one EOL, then Body and nothing more,
\* with fullPath = Path + ("?" + Query if Query is not empty) + ("#" +
\* Fragment if Fragment is not empty); the headers are exactly the lines
\* appended by AddHeader, AutoSetHost and AutoSetContentLength, in call
\* order, duplicates kept.
C8_WireFormat ==
    rendered.done
    => rendered.text =
          req.Method \o <<" ">>
          \o req.Path
          \o (IF req.Query = <<>> THEN <<>> ELSE <<"?">> \o req.Query)
          \o (IF req.Fragment = <<>> THEN <<>> ELSE <<"#">> \o req.Fragment)
          \o <<" ">> \o req.Proto \o req.EOL
          \o ExpectedHeaderBlock(calls, req.EOL)
          \o req.EOL
          \o req.Body

\* a Request with a query, a fragment, a bare-newline EOL and two Host
\* headers (one from AutoSetHost, one from AddHeader) was rendered
C8_Witness ==
    /\ rendered.done
    /\ req.Query # <<>> /\ req.Fragment # <<>> /\ req.EOL = <<"\n">> /\ req.Body # <<>>
    /\ Len(calls) = 2
    /\ calls[1].op = "AutoSetHost"
    /\ calls[2].op = "AddHeader" /\ calls[2].line = <<"H","o","s","t",":"," ","e">>
    /\ Len(req.Headers) = 2

(***************************************************************************)
(* net/url as FromURL uses it: url.Parse, URL.Hostname, URL.Port.          *)
(***************************************************************************)
HexChars == <<"0","1","2","3","4","5","6","7","8","9","a","b","c","d","e","f">>

\* ishex
IsHex(c) == IndexOf(HexChars, LowerChar(c)) # 0

\* unhex
HexVal(c) == IndexOf(HexChars, LowerChar(c)) - 1

\* the character with byte value n, for the bytes the generated escapes denote
ByteChar(n) ==
    CASE n = 68 -> "D"
      [] n = 47 -> "/"
      [] n = 63 -> "?"
      [] n = 35 -> "#"
      [] n = 37 -> "%"
      [] OTHER  -> "."

\* url.unescape for a path or a fragment: every "%" must be followed by
\* two hex digits and the three characters become the byte they denote
RECURSIVE Unescape(_)
Unescape(s) ==
    IF s = <<>> THEN [ok |-> TRUE, text |-> <<>>]
    ELSE IF s[1] = "%"
    THEN IF Len(s) < 3 \/ ~IsHex(s[2]) \/ ~IsHex(s[3])
         THEN [ok |-> FALSE, text |-> <<>>]
         ELSE LET r == Unescape(Drop(s, 3))
              IN  [ok |-> r.ok, text |-> <<ByteChar(16 * HexVal(s[2]) + HexVal(s[3]))>> \o r.text]
    ELSE LET r == Unescape(Tail(s))
         IN  [ok |-> r.ok, text |-> <<s[1]>> \o r.text]

\* the text of s before its first c, all of s when c is absent: strings.Cut's
\* first result, strings.Split(s, c)[0]
Before(s, c) == IF IndexOf(s, c) = 0 THEN s ELSE Take(s, IndexOf(s, c) - 1)

\* the text of s after its first c, nothing when c is absent: strings.Cut's
\* second result
After(s, c) == IF IndexOf(s, c) = 0 THEN <<>> ELSE Drop(s, IndexOf(s, c))

\* whether c may stand at position i of a scheme
SchemeChar(c, i) ==
    \/ IndexOf(UpperChars, c) # 0
    \/ IndexOf(LowerChars, c) # 0
    \/ (i > 1 /\ (IndexOf(DigitChars, c) # 0 \/ c \in {"+", "-", "."}))

\* url.getScheme: the text before the first ":" when it is a scheme
getScheme(rawurl) ==
    LET stops == { i \in 1..Len(rawurl) : ~SchemeChar(rawurl[i], i) }
        i     == CHOOSE k \in stops : \A j \in stops : k <= j
    IN  IF stops = {} THEN [ok |-> TRUE, scheme |-> <<>>, rest |-> rawurl]
        ELSE IF rawurl[i] # ":" THEN [ok |-> TRUE, scheme |-> <<>>, rest |-> rawurl]
        ELSE IF i = 1 THEN [ok |-> FALSE, scheme |-> <<>>, rest |-> <<>>]
        ELSE [ok |-> TRUE, scheme |-> Take(rawurl, i - 1), rest |-> Drop(rawurl, i)]

\* a URL that did not parse
BadURL == [ok |-> FALSE, Scheme |-> <<>>, Host |-> <<>>, RawQuery |-> <<>>, Fragment |-> <<>>]

\* url.Parse, for the fields FromURL reads: the fragment is cut at the first
\* "#" and unescaped, the query is cut at the first "?" and kept as written,
\* the authority runs from "//" to the next "/", the rest is the path
ParseURL(rawurl) ==
    LET u        == Before(rawurl, "#")
        frag     == After(rawurl, "#")
        sc       == getScheme(u)
        rest1    == Before(sc.rest, "?")
        rawQuery == After(sc.rest, "?")
        hasAuth  == Len(rest1) >= 2 /\ rest1[1] = "/" /\ rest1[2] = "/"
        auth     == IF hasAuth THEN Before(Drop(rest1, 2), "/") ELSE <<>>
        path     == IF hasAuth THEN Drop(rest1, 2 + Len(auth)) ELSE rest1
        opaque   == rest1 = <<>> \/ rest1[1] # "/"
        fr       == Unescape(frag)
    IN  IF ~sc.ok THEN BadURL
        ELSE IF sc.scheme # <<>> /\ opaque
        THEN IF ~fr.ok THEN BadURL
             ELSE [ok |-> TRUE, Scheme |-> ToLower(sc.scheme), Host |-> <<>>,
                   RawQuery |-> rawQuery, Fragment |-> fr.text]
        ELSE IF IndexOf(auth, "%") # 0 THEN BadURL
        ELSE IF ~Unescape(path).ok THEN BadURL
        ELSE IF ~fr.ok THEN BadURL
        ELSE [ok |-> TRUE, Scheme |-> ToLower(sc.scheme), Host |-> auth,
              RawQuery |-> rawQuery, Fragment |-> fr.text]

\* URL.Hostname: the host without its port
Hostname(u) == Before(u.Host, ":")

\* URL.Port: the digits after the host's colon
Port(u) == After(u.Host, ":")

(***************************************************************************)
(* FromURL (request.go, latest revision).                                  *)
(***************************************************************************)
S_https == <<"h","t","t","p","s">>
S_443 == <<"4","4","3">>

\* the timeout FromURL sets, in seconds
FromURLTimeout == 30

\* &Request{}
ZeroRequest ==
    [TLS |-> FALSE, Method |-> <<>>, Scheme |-> <<>>, Hostname |-> <<>>, Port |-> <<>>,
     Path |-> <<>>, Query |-> <<>>, Fragment |-> <<>>, Proto |-> <<>>, Headers |-> <<>>,
     Body |-> <<>>, EOL |-> <<>>, Timeout |-> 0]

\* a nil *Request
NilRequest == [nil |-> TRUE]

\* index of the first "//" in s, 0 when there is none
IndexOfSlashes(s) ==
    LET at == { i \in 1..(Len(s) - 1) : s[i] = "/" /\ s[i + 1] = "/" }
    IN  IF at = {} THEN 0 ELSE CHOOSE i \in at : \A j \in at : i <= j

\* strings.SplitN(rawurl, "//", 2)
SplitSlashes(s) ==
    LET i == IndexOfSlashes(s)
    IN  IF i = 0 THEN <<s>> ELSE <<Take(s, i - 1), Drop(s, i + 1)>>

\* FromURL
FromURL(method, rawurl) ==
    LET u         == ParseURL(rawurl)
        schemeEtc == SplitSlashes(rawurl)
        pathEtc   == SplitN2(schemeEtc[2], "/")
        path      == IF Len(pathEtc) = 2
                     THEN Before(Before(<<"/">> \o pathEtc[2], "?"), "#")
                     ELSE <<"/">>
        tls       == u.Scheme = S_https
    IN  IF ~u.ok THEN [r |-> ZeroRequest, err |-> "url.Error"]
        ELSE IF Len(schemeEtc) # 2 THEN [r |-> NilRequest, err |-> "invalid url"]
        ELSE [r |-> [TLS      |-> tls,
                     Method   |-> method,
                     Scheme   |-> u.Scheme,
                     Hostname |-> Hostname(u),
                     Port     |-> IF Port(u) = <<>> THEN (IF tls THEN S_443 ELSE S_80) ELSE Port(u),
                     Path     |-> IF path = <<>> THEN <<"/">> ELSE path,
                     Query    |-> u.RawQuery,
                     Fragment |-> u.Fragment,
                     Proto    |-> S_HTTP11,
                     Headers  |-> <<>>,
                     Body     |-> <<>>,
                     EOL      |-> CRLF,
                     Timeout  |-> FromURLTimeout],
              err |-> "nil"]

(***************************************************************************)
(* SpecURL: FromURL applied to every generated URL.  A URL is composed     *)
(* from its parts, so that the path, the query and the fragment written    *)
(* in it are known apart from what FromURL makes of them.                  *)
(***************************************************************************)
S_Escape == <<"%","4","4">>

PathTokens == { <<"/">>, <<"p">>, S_Escape, <<"%">> }
QueryTokens == { <<"q">>, <<"/">>, <<"?">>, S_Escape }
FragTokens == { <<"f">>, <<"/">>, <<"?">>, <<"#">>, S_Escape }

\* the concatenation of a sequence of tokens
RECURSIVE Concat(_)
Concat(ts) == IF ts = <<>> THEN <<>> ELSE Head(ts) \o Concat(Tail(ts))

\* the texts of at most MaxURLPart tokens
Texts(tokens) == { Concat(ts) : ts \in SeqsUpTo(tokens, MaxURLPart) }

\* the paths: none, or "/" and a text
URLPaths == { <<>> } \cup { <<"/">> \o t : t \in Texts(PathTokens) }

URLs ==
    { [slashes |-> TRUE, scheme |-> sc, host |-> <<"h">>, path |-> pa, query |-> qu, frag |-> fr] :
        sc \in { S_http, S_https }, pa \in URLPaths,
        qu \in Texts(QueryTokens), fr \in Texts(FragTokens) }
    \cup
    { [slashes |-> TRUE, scheme |-> S_http, host |-> <<"h",":","8">>, path |-> pa,
       query |-> <<>>, frag |-> <<>>] :
        pa \in URLPaths }
    \cup
    { [slashes |-> FALSE, scheme |-> S_http, host |-> <<>>, path |-> pa,
       query |-> <<>>, frag |-> <<>>] :
        pa \in { <<"/">>, <<"/","p">> } }

\* the URL string of the parts u: the query follows a "?" and the fragment a
\* "#" when there is one
URLBytes(u) ==
    u.scheme \o <<":">> \o (IF u.slashes THEN <<"/","/">> \o u.host ELSE <<>>) \o u.path
    \o (IF u.query # <<>> THEN <<"?">> \o u.query ELSE <<>>)
    \o (IF u.frag # <<>> THEN <<"#">> \o u.frag ELSE <<>>)

NotMade == [done |-> FALSE, r |-> NilRequest, err |-> "nil"]

InitURL ==
    /\ url \in URLs
    /\ made = NotMade
    /\ RespIdle /\ ReqIdle /\ DoIdle

\* FromURL("GET", url)
CallFromURL ==
    /\ ~made.done
    /\ LET f == FromURL(S_GET, URLBytes(url))
       IN  made' = [done |-> TRUE, r |-> f.r, err |-> f.err]
    /\ UNCHANGED <<url, respVars, reqVars, doVars>>

NextURL == CallFromURL

SpecURL == InitURL /\ [][NextURL]_vars

\* C7 (as claimed): for every URL FromURL accepts, Path is the path written
\* in the URL ("/" when none is written), Query the text written after the
\* first "?", Fragment the text written after the "#", and the request
\* target is those three put together, byte for byte.
C7_TargetPreserved ==
    (made.done /\ made.err = "nil" /\ url.slashes)
    => /\ made.r.Path = (IF url.path = <<>> THEN <<"/">> ELSE url.path)
       /\ made.r.Query = url.query
       /\ made.r.Fragment = url.frag
       /\ fullPath(made.r) =
            (IF url.path = <<>> THEN <<"/">> ELSE url.path)
            \o (IF url.query = <<>> THEN <<>> ELSE <<"?">> \o url.query)
            \o (IF url.frag = <<>> THEN <<>> ELSE <<"#">> \o url.frag)

(***************************************************************************)
(* Do (request.go, latest revision).  A Requester is a Request or a        *)
(* RawRequest; kind tells which methods the interface dispatches to.       *)
(***************************************************************************)
\* req.IsTLS()
ReqIsTLS(q) == IF q.kind = "RawRequest" THEN RawIsTLS(q) ELSE IsTLS(q)

\* req.Host()
ReqHost(q) == IF q.kind = "RawRequest" THEN RawHost(q) ELSE Host(q)

\* req.String()
ReqString(q) == IF q.kind = "RawRequest" THEN RawString(q) ELSE String(q)

\* req.GetTimeout()
ReqGetTimeout(q) == GetTimeout(q)

\* the Requesters passed to Do
DoRequests ==
    { [kind |-> "RawRequest", TLS |-> tls, Hostname |-> <<"h">>, Port |-> S_80,
       Request |-> rq, Timeout |-> t] :
        tls \in BOOLEAN, t \in {0, 5},
        rq \in { <<"G","E","T"," ","/","\r","\n">>, <<"G","E","T"," ","/","\r","\n","\r","\n">> } }
    \cup
    { [kind |-> "Request", TLS |-> tls, Method |-> S_GET, Scheme |-> IF tls THEN S_https ELSE S_http,
       Hostname |-> <<"h">>, Port |-> IF tls THEN S_443 ELSE S_80, Path |-> <<"/">>,
       Query |-> <<>>, Fragment |-> <<>>, Proto |-> S_HTTP11, Headers |-> hs,
       Body |-> bo, EOL |-> eol, Timeout |-> FromURLTimeout] :
        tls \in BOOLEAN, hs \in { <<>>, << S_Host \o <<"h">> >> },
        bo \in { <<>>, <<"x">> }, eol \in { CRLF, LF } }

\* the replies the server may send to Do's request
DoReplies ==
    { [status |-> st, hdrs |-> hs, blank |-> CRLF, body |-> b, cut |-> "none"] :
        st \in StatusParts,
        hs \in SeqsUpTo({ h \in HeaderParts : h.name = S_ContentLength /\ h.val \in { <<"2">>, <<"x">> } }, 1),
        b \in { <<>>, <<"a","a">> } }
    \cup
    { [status |-> st, hdrs |-> <<>>, blank |-> <<>>, body |-> <<>>, cut |-> "inStatus"] :
        st \in StatusParts }

NoReturn == [resp |-> NilResponse, err |-> "nil"]

InitDo ==
    /\ dreq \in DoRequests
    /\ pc = "start"
    /\ connState = "none"
    /\ events = <<>>
    /\ ret = NoReturn
    /\ RespIdle /\ ReqIdle /\ URLIdle

\* x509.SystemCertPool fails on the TLS path: Do returns the error
DoCertPoolFail ==
    /\ pc = "start"
    /\ ReqIsTLS(dreq)
    /\ ret' = [resp |-> NilResponse, err |-> "CertPoolError"]
    /\ pc' = "done"
    /\ UNCHANGED <<dreq, connState, events, respVars, reqVars, urlVars>>

\* tls.DialWithDialer or Dialer.Dial fails: Do returns connerr
DoDialFail ==
    /\ pc = "start"
    /\ events' = Append(events, [op |-> "dial", data |-> ReqHost(dreq), ok |-> FALSE,
                                 tls |-> ReqIsTLS(dreq), timeout |-> ReqGetTimeout(dreq)])
    /\ ret' = [resp |-> NilResponse, err |-> "connerr"]
    /\ pc' = "done"
    /\ UNCHANGED <<dreq, connState, respVars, reqVars, urlVars>>

\* tls.DialWithDialer or Dialer.Dial succeeds: the connection is open
DoDialOk ==
    /\ pc = "start"
    /\ events' = Append(events, [op |-> "dial", data |-> ReqHost(dreq), ok |-> TRUE,
                                 tls |-> ReqIsTLS(dreq), timeout |-> ReqGetTimeout(dreq)])
    /\ connState' = "open"
    /\ pc' = "write"
    /\ UNCHANGED <<dreq, ret, respVars, reqVars, urlVars>>

\* fmt.Fprint(conn, req.String()): the write succeeds or fails, and its
\* result is dropped
DoWriteRequest ==
    /\ pc = "write"
    /\ \E ok \in BOOLEAN :
         events' = Append(events, [op |-> "write", data |-> ReqString(dreq), ok |-> ok])
    /\ pc' = "crlf"
    /\ UNCHANGED <<dreq, connState, ret, respVars, reqVars, urlVars>>

\* a Do that adds the "\r\n" only when the request does not end with a blank line
DoWriteCRLF_IfMissing ==
    /\ pc = "crlf"
    /\ LET str == ReqString(dreq)
           n   == Len(str)
       IN  IF n >= 2 /\ str[n] = "\n" /\ (str[n - 1] = "\n" \/ (n >= 3 /\ str[n - 1] = "\r" /\ str[n - 2] = "\n"))
           THEN events' = events
           ELSE \E ok \in BOOLEAN :
                  events' = Append(events, [op |-> "write", data |-> CRLF, ok |-> ok])
    /\ pc' = "read"
    /\ UNCHANGED <<dreq, connState, ret, respVars, reqVars, urlVars>>

\* fmt.Fprint(conn, "\r\n"): the write succeeds or fails, and its result is
\* dropped
DoWriteCRLF ==
    /\ pc = "crlf"
    /\ \E ok \in BOOLEAN :
         events' = Append(events, [op |-> "write", data |-> CRLF, ok |-> ok])
    /\ pc' = "read"
    /\ UNCHANGED <<dreq, connState, ret, respVars, reqVars, urlVars>>

\* return newResponse(conn): the reply is whatever the server sent, ended by
\* EOF or by a reset
DoRead ==
    /\ pc = "read"
    /\ \E w \in DoReplies : \E e \in {"EOF", "reset"} :
         LET r == newResponse(WireBytes(w), e)
         IN  /\ events' = Append(events, [op |-> "read", data |-> <<>>, ok |-> r.err = "nil"])
             /\ ret' = [resp |-> r.resp, err |-> r.err]
    /\ pc' = "done"
    /\ UNCHANGED <<dreq, connState, respVars, reqVars, urlVars>>

NextDo ==
    \/ DoCertPoolFail
    \/ DoDialFail
    \/ DoDialOk
    \/ DoWriteRequest
    \/ DoWriteCRLF
    \/ DoRead

SpecDo == InitDo /\ [][NextDo]_vars

\* the positions of the events of kind op
EventsOf(op) == { i \in 1..Len(events) : events[i].op = op }

\* Do opened a connection
Opened == \E i \in EventsOf("dial") : events[i].ok

\* a write of Do failed
WriteFailed == \E i \in EventsOf("write") : ~events[i].ok

\* C4 (as claimed): when Do has opened a connection, the connection is
\* closed by the time Do returns, on the success path and on every error path.
C4_ConnectionClosed ==
    (pc = "done" /\ Opened) => connState = "closed"

\* C5 (as claimed): Do returns a Response and no error, or no Response and
\* the first error met in the order connect, write, parse: a failed connect
\* returns its error with nothing written, a failed write returns an error
\* and no Response, a failed parse returns the parse error and no Response.
C5_FirstError ==
    pc = "done"
    => /\ (ret.resp # NilResponse) <=> (ret.err = "nil")
       /\ ~Opened => (ret.err \in {"connerr", "CertPoolError"} /\ EventsOf("write") = {})
       /\ (Opened /\ WriteFailed) => (ret.err # "nil" /\ ret.resp = NilResponse)
       /\ (Opened /\ ~WriteFailed /\ \E i \in EventsOf("read") : ~events[i].ok)
            => (ret.err \in {"EOF", "ErrUnexpectedEOF", "reset", "NumError"} /\ ret.resp = NilResponse)

\* the text the Requester renders, read off its fields
RequesterText(q) == IF q.kind = "RawRequest" THEN q.Request ELSE String(q)

\* C6: a call of Do dials at most once; on the connection it opened it
\* writes the bytes of req.String(), then writes one "\r\n" whatever the
\* request's own line end and last line are, and only then reads the reply;
\* it writes nothing else and repeats no step.
C6_DoOrder ==
    /\ Len(events) <= 4
    /\ \A i \in 1..Len(events) : events[i].op = <<"dial", "write", "write", "read">>[i]
    /\ (Len(events) >= 1 /\ ~events[1].ok) => Len(events) = 1
    /\ Len(events) >= 2 => events[2].data = RequesterText(dreq)
    /\ Len(events) >= 3 => events[3].data = <<"\r", "\n">>
    /\ (pc = "done" /\ Opened) => Len(events) = 4
    /\ (pc = "done" /\ ~Opened) => Len(events) <= 1

\* Do returned after sending a Request whose line end is a bare newline and
\* whose text already ends with a blank line, and the extra "\r\n" was written
C6_Witness ==
    /\ pc = "done" /\ Opened
    /\ dreq.kind = "Request" /\ dreq.EOL = <<"\n">> /\ dreq.Body = <<>>
    /\ Len(events) = 4
    /\ events[2].data = String(dreq)
    /\ events[3].data = <<"\r", "\n">>
    /\ events[4].op = "read"
    /\ ret.err = "nil"

====
